---- MODULE Spec2Model ----
(***************************************************************************)
(* The TRMM 3B4XRT reader of pytrmm (src/pytrmm/trmm3b4xrt.py): the base   *)
(* class TRMM3B4XRTFile and its three variants TRMM3B40RTFile,             *)
(* TRMM3B41RTFile and TRMM3B42RTFile.                                      *)
(*                                                                         *)
(* Text is modelled as a sequence of lexemes: a Python string is the       *)
(* sequence of its lexemes, and the separators "=", "," and "." are        *)
(* lexemes of their own, so that str.split is computed and not assumed.    *)
(* A file on disk is its header block (the whitespace-separated tokens of  *)
(* its first 2880 bytes) followed by a payload of bytes.                   *)
(***************************************************************************)
EXTENDS Integers, Sequences, FiniteSets, TLC

VARIABLES
    disk,      \* the content of the file the path names, now
    filename,  \* the path given to the constructor (self.filename)
    host,      \* the host: sys.byteorder and numpy's casting rule
    obj,       \* the reader object: _hdr, _rows, _cols, its class; NoObj if none
    out,       \* what the call made by the last step returned or raised
    handles    \* file and gzip handles opened and not closed

vars == <<disk, filename, host, obj, out, handles>>

---------------------------------------------------------------------------
(* Bounds of the model.                                                    *)
MaxRows == 2
MaxCols == 2
MaxFields == 2
MaxSeed == 3
MaxHandles == 1
MaxExtra == 1
MaxTokenLen == 3

(* self._header_offset                                                     *)
HeaderOffset == 2880

---------------------------------------------------------------------------
(* Lexemes and Python's conversions of them.                               *)

Numerals == <<"0", "1", "2", "3", "4", "5", "6", "7", "8", "9">>

IntLiterals ==
    {<<Numerals[i], i - 1>> : i \in 1..Len(Numerals)}
        \cup {<<"10", 10>>, <<"100", 100>>, <<"-1", 0 - 1>>, <<"-9999", 0 - 9999>>}

Lex(n) == (CHOOSE p \in IntLiterals : p[2] = n)[1]

S(x) == <<x>>

IsError(r) == r.kind \notin {"ok", "data", "value", "array", "masked"}

Raise(kind, what) == [kind |-> kind, what |-> what]

Value(v) == [kind |-> "value", v |-> v]

(* int(s) and float(s) of a string s: its value when s is one numeric      *)
(* lexeme, and ValueError otherwise.                                       *)
PyInt(s) ==
    IF Len(s) = 1 /\ \E p \in IntLiterals : p[1] = s[1]
    THEN Value((CHOOSE p \in IntLiterals : p[1] = s[1])[2])
    ELSE Raise("ValueError", "int")

PyFloat(s) ==
    IF Len(s) = 1 /\ \E p \in IntLiterals : p[1] = s[1]
    THEN Value((CHOOSE p \in IntLiterals : p[1] = s[1])[2])
    ELSE Raise("ValueError", "float")

(* s.split(sep): the parts of s between the occurrences of sep.            *)
RECURSIVE SplitFrom(_, _, _)
SplitFrom(s, sep, cur) ==
    IF s = <<>> THEN <<cur>>
    ELSE IF Head(s) = sep THEN <<cur>> \o SplitFrom(Tail(s), sep, <<>>)
    ELSE SplitFrom(Tail(s), sep, Append(cur, Head(s)))

Split(s, sep) == SplitFrom(s, sep, <<>>)

(* int(s[-1]) of a type tag: the digit its last character is.              *)
TrailingDigit(s) ==
    IF s = <<>> THEN Raise("IndexError", "string index")
    ELSE LET last == s[Len(s)] IN
         CASE last = "signed_integer1" -> Value(1)
           [] last = "signed_integer2" -> Value(2)
           [] last = "signed_integer4" -> Value(4)
           [] \E p \in IntLiterals : p[1] = last /\ p[2] \in 0..9 ->
                Value((CHOOSE p \in IntLiterals : p[1] = last)[2])
           [] OTHER -> Raise("ValueError", "int")

---------------------------------------------------------------------------
(* Files.                                                                  *)

Pattern ==
    <<255, 255, 255, 254, 0, 0, 216, 241, 216, 240, 216, 242,
      0, 100, 1, 44, 128, 0, 127, 255, 0, 10, 3>>

PayloadByte(seed, p) == Pattern[((p + seed) % Len(Pattern)) + 1]

RECURSIVE JoinComma(_)
JoinComma(parts) ==
    IF Len(parts) = 0 THEN <<>>
    ELSE IF Len(parts) = 1 THEN <<parts[1]>>
    ELSE <<parts[1], ",">> \o JoinComma(Tail(parts))

HeaderTokens(algo, rows, cols, types, scales, flag) ==
    << <<"algorithm_ID", "=", algo>>,
       <<"number_of_latitude_bins", "=", Lex(rows)>>,
       <<"number_of_longitude_bins", "=", Lex(cols)>>,
       <<"number_of_variables", "=", Lex(Len(types))>>,
       <<"variable_type", "=">> \o JoinComma(types),
       <<"variable_scale", "=">> \o JoinComma([k \in 1..Len(scales) |-> Lex(scales[k])]),
       <<"flag_value", "=", Lex(flag)>> >>

File(header, seed, len) == [status |-> "ok", header |-> header, seed |-> seed, len |-> len]

Missing == [status |-> "missing"]

Corrupt == [status |-> "corrupt"]

FileSize(d) == HeaderOffset + d.len

(* data_string[strt:end] of a file's bytes, strt at or after the header.   *)
Slice(d, strt, end) ==
    LET stop == IF end < FileSize(d) THEN end ELSE FileSize(d)
        n == IF stop > strt THEN stop - strt ELSE 0
    IN [i \in 1..n |-> PayloadByte(d.seed, strt + i - 1 - HeaderOffset)]

---------------------------------------------------------------------------
(* TRMM3B4XRTFile._read_binary: the bytes of the file, and the handles the *)
(* call opened and closed.  GzipFile(name) and open(name) raise when the   *)
(* file is missing, before any handle exists; read() of a gzip stream      *)
(* raises on content that is no gzip archive, and fp.close() on the next   *)
(* line is then not reached.                                               *)
IsGz(name) ==
    LET parts == Split(name, ".") IN parts[Len(parts)] = <<"gz">>

ReadBinary(name, d) ==
    IF d.status = "missing"
    THEN [kind |-> "IOError", what |-> "open", opened |-> 0, closed |-> 0]
    ELSE IF IsGz(name) /\ d.status = "corrupt"
    THEN [kind |-> "IOError", what |-> "read", opened |-> 1, closed |-> 0]
    ELSE [kind |-> "data", data |-> d, opened |-> 1, closed |-> 1]

(* self._hdr[key] = val                                                    *)
Put(h, key, val) == [k \in (DOMAIN h) \cup {key} |-> IF k = key THEN val ELSE h[k]]

EmptyDict == [k \in {} |-> <<>>]

(* The slip of keeping the first value of a key that occurs again.         *)
RECURSIVE HeaderLoopFirstWins(_, _)
HeaderLoopFirstWins(tokens, h) ==
    IF tokens = <<>> THEN [kind |-> "ok", hdr |-> h]
    ELSE LET parts == Split(Head(tokens), "=") IN
         IF Len(parts) # 2 THEN Raise("ValueError", "unpack")
         ELSE HeaderLoopFirstWins(Tail(tokens),
                IF parts[1] \in DOMAIN h THEN h ELSE Put(h, parts[1], parts[2]))

(* The loop of _read_header over the tokens: key, val = item.split('=')    *)
(* raises ValueError unless the token splits into exactly two parts.       *)
RECURSIVE HeaderLoop(_, _)
HeaderLoop(tokens, h) ==
    IF tokens = <<>> THEN [kind |-> "ok", hdr |-> h]
    ELSE LET parts == Split(Head(tokens), "=") IN
         IF Len(parts) # 2 THEN Raise("ValueError", "unpack")
         ELSE HeaderLoop(Tail(tokens), Put(h, parts[1], parts[2]))

(* TRMM3B4XRTFile._read_header                                             *)
(* An exception e leaving a call whose file handling was io.               *)
Fail(e, io) ==
    [kind |-> e.kind, what |-> e.what, opened |-> io.opened, closed |-> io.closed]

(* self._hdr after the loop r over the header block of the load rb.        *)
HeaderOf(rb, r) ==
    IF r.kind # "ok" THEN Fail(r, rb)
    ELSE [kind |-> "ok", hdr |-> r.hdr, opened |-> rb.opened, closed |-> rb.closed]

(* _read_header on the outcome rb of _read_binary.                         *)
ReadHeaderOf(rb) ==
    IF rb.kind # "data" THEN Fail(rb, rb)
    ELSE HeaderOf(rb, HeaderLoop(rb.data.header, EmptyDict))

(* TRMM3B4XRTFile._read_header                                             *)
ReadHeader(name, d) == ReadHeaderOf(ReadBinary(name, d))

---------------------------------------------------------------------------
(* The three variant classes.                                              *)
Variants == {"TRMM3B40RTFile", "TRMM3B41RTFile", "TRMM3B42RTFile"}

ExpectedAlgorithm(v) ==
    CASE v = "TRMM3B40RTFile" -> "3B40RT"
      [] v = "TRMM3B41RTFile" -> "3B41RT"
      [] v = "TRMM3B42RTFile" -> "3B42RT"

NoObj == [variant |-> "none"]

NoOut == [call |-> "none"]

(* TRMM3B4XRTFile.__init__: the header is read and kept, and the grid's    *)
(* dimensions are taken from it, once.                                     *)
GridOf(name, rh, rows, cols) ==
    IF IsError(rows) THEN Fail(rows, rh)
    ELSE IF IsError(cols) THEN Fail(cols, rh)
    ELSE [kind |-> "ok",
          self |-> [filename |-> name, hdr |-> rh.hdr, rows |-> rows.v, cols |-> cols.v],
          opened |-> rh.opened, closed |-> rh.closed]

BaseInitOf(name, rh) ==
    IF rh.kind # "ok" THEN rh
    ELSE GridOf(name, rh, PyInt(rh.hdr[S("number_of_latitude_bins")]),
                          PyInt(rh.hdr[S("number_of_longitude_bins")]))

BaseInit(name, d) == BaseInitOf(name, ReadHeader(name, d))

(* The slip of refusing a file whose algorithm_ID is another variant's.    *)
NewStrictOf(v, b) ==
    IF b.kind # "ok" THEN b
    ELSE IF b.self.hdr[S("algorithm_ID")] # S(ExpectedAlgorithm(v))
    THEN [kind |-> "IOError", what |-> "algorithm_ID",
          opened |-> b.opened, closed |-> b.closed]
    ELSE [kind |-> "ok",
          self |-> [variant |-> v, filename |-> b.self.filename, hdr |-> b.self.hdr,
                    rows |-> b.self.rows, cols |-> b.self.cols],
          warned |-> FALSE,
          opened |-> b.opened, closed |-> b.closed]

NewStrict(v, name, d) == NewStrictOf(v, BaseInit(name, d))

(* The __init__ of a variant: the base __init__, then a warning when the   *)
(* header's algorithm_ID is not the variant's.                             *)
NewOf(v, b) ==
    IF b.kind # "ok" THEN b
    ELSE [kind |-> "ok",
          self |-> [variant |-> v, filename |-> b.self.filename, hdr |-> b.self.hdr,
                    rows |-> b.self.rows, cols |-> b.self.cols],
          warned |-> (b.self.hdr[S("algorithm_ID")] # S(ExpectedAlgorithm(v))),
          opened |-> b.opened, closed |-> b.closed]

New(v, name, d) == NewOf(v, BaseInit(name, d))

---------------------------------------------------------------------------
(* numpy arrays.  An element is kept as its bytes in memory order, and     *)
(* read as a signed integer in the host's byte order.                      *)

Pow256(w) == IF w = 1 THEN 256 ELSE 65536

(* The unsigned value of an element's bytes read in byte order `order`.    *)
RECURSIVE Unsigned(_, _)
Unsigned(mem, order) ==
    IF mem = <<>> THEN 0
    ELSE IF order = "big"
    THEN mem[Len(mem)] + 256 * Unsigned(SubSeq(mem, 1, Len(mem) - 1), order)
    ELSE mem[1] + 256 * Unsigned(Tail(mem), order)

(* The two's-complement value of an element of a signed integer dtype.     *)
ElemValue(mem, order) ==
    LET u == Unsigned(mem, order)
        m == Pow256(Len(mem))
    IN IF 2 * u >= m THEN u - m ELSE u

(* np.fromstring(bytes, dtype): the elements, each `width` bytes of the    *)
(* string in memory order; ValueError when the length is no multiple.      *)
FromString(bytes, width) ==
    IF Len(bytes) % width # 0 THEN Raise("ValueError", "fromstring")
    ELSE [kind |-> "ok",
          elems |-> [i \in 1..(Len(bytes) \div width) |->
                        [j \in 1..width |-> bytes[(i - 1) * width + j]]]]

(* ndarray.byteswap(): every element's bytes reversed.                     *)
Byteswap(elems) ==
    [i \in 1..Len(elems) |-> [j \in 1..Len(elems[i]) |-> elems[i][Len(elems[i]) + 1 - j]]]

(* The slip of swapping on every host.                                     *)
ToNativeAlways(elems, order) == Byteswap(elems)

(* if sys.byteorder == 'little': field = field.byteswap()                  *)
ToNative(elems, order) == IF order = "little" THEN Byteswap(elems) ELSE elems

(* ndarray.reshape(rows, cols): row-major, row 0 first; ValueError when    *)
(* the number of elements is not rows*cols.                                *)
Reshape(flat, rows, cols) ==
    IF Len(flat) # rows * cols THEN Raise("ValueError", "reshape")
    ELSE [kind |-> "ok",
          grid |-> [r \in 1..rows |-> [c \in 1..cols |-> flat[(r - 1) * cols + c]]]]

---------------------------------------------------------------------------
(* TRMM3B4XRTFile.read_raw_field                                           *)

(* dtype_list = [int(s[-1]) for s in ...]: the digits, or the error of the *)
(* first tag that has none.                                                *)
DtypeList(tags) ==
    LET digits == [i \in 1..Len(tags) |-> TrailingDigit(tags[i])]
        bad == {i \in 1..Len(tags) : IsError(digits[i])}
    IN IF bad # {}
       THEN digits[CHOOSE i \in bad : \A j \in bad : i <= j]
       ELSE [kind |-> "ok", list |-> [i \in 1..Len(tags) |-> digits[i].v]]

(* The slip of counting every preceding field as one byte wide.            *)
StartOffsetUnitWidth(dtype_list, k, cells, acc) ==
    IF k < 0 THEN Value(acc) ELSE Value(acc + (k + 1) * cells)

(* The while loop over k = field_num - 1 .. 0: the start offset, or        *)
(* IndexError when dtype_list has no entry k.                              *)
RECURSIVE StartOffset(_, _, _, _)
StartOffset(dtype_list, k, cells, acc) ==
    IF k < 0 THEN Value(acc)
    ELSE IF k + 1 > Len(dtype_list) THEN Raise("IndexError", "list index")
    ELSE StartOffset(dtype_list, k - 1, cells, acc + dtype_list[k + 1] * cells)

OutOfRange(field_num, name, nfields) ==
    [kind |-> "IOError", what |-> "field number", field_num |-> field_num,
     filename |-> name, nfields |-> nfields]

BadlyFormedHeader(name) == [kind |-> "IOError", what |-> "Badly formed header", filename |-> name]

(* The branch on var_type: the element width, or none.                     *)
WidthOfType(var_type) ==
    IF var_type = S("signed_integer1") THEN 1
    ELSE IF var_type = S("signed_integer2") THEN 2
    ELSE 0

(* Lines 107-115: the file is read again, the field's bytes are sliced,    *)
(* decoded, put in native order and reshaped.                              *)
DecodeField(self, d, order, strt, width) ==
    LET cells == self.rows * self.cols
        rb == ReadBinary(self.filename, d)
        io(r) == [opened |-> rb.opened, closed |-> rb.closed, res |-> r]
    IN IF rb.kind # "data" THEN io(Raise(rb.kind, rb.what))
       ELSE LET fs == FromString(Slice(rb.data, strt, strt + width * cells), width) IN
            IF IsError(fs) THEN io(fs)
            ELSE LET native == ToNative(fs.elems, order)
                     rs == Reshape(native, self.rows, self.cols)
                 IN IF IsError(rs) THEN io(rs)
                    ELSE io([kind |-> "array",
                             dtype |-> IF width = 1 THEN "int8" ELSE "int16",
                             data |-> [r \in 1..self.rows |-> [c \in 1..self.cols |->
                                          ElemValue(rs.grid[r][c], order)]]])

(* The slip of letting the index nfields through.                          *)
InRangeInclusive(field_num, nfields) == field_num \in 0..nfields

(* if field_num in range(nfields)                                          *)
InRange(field_num, nfields) == field_num \in 0..(nfields - 1)

ReadRawField(self, d, order, field_num) ==
    LET tags == Split(self.hdr[S("variable_type")], ",")
        dl == DtypeList(tags)
        nf == PyInt(self.hdr[S("number_of_variables")])
        none(r) == [opened |-> 0, closed |-> 0, res |-> r]
    IN IF IsError(dl) THEN none(dl)
       ELSE IF IsError(nf) THEN none(nf)
       ELSE IF ~InRange(field_num, nf.v)
       THEN none(OutOfRange(field_num, self.filename, nf.v))
       ELSE LET so == StartOffset(dl.list, field_num - 1, self.rows * self.cols, HeaderOffset) IN
            IF IsError(so) THEN none(so)
            ELSE IF field_num + 1 > Len(tags) THEN none(Raise("IndexError", "list index"))
            ELSE LET width == WidthOfType(tags[field_num + 1]) IN
                 IF width = 0 THEN none(BadlyFormedHeader(self.filename))
                 ELSE DecodeField(self, d, order, so.v, width)

---------------------------------------------------------------------------
(* TRMM3B4XRTFile._read_scaled_masked_field.  A float32 value is kept as   *)
(* the exact fraction <<numerator, denominator>> in lowest terms (the      *)
(* rounding of float32 is left out); an int8 value as an integer.          *)

RECURSIVE Gcd(_, _)
Gcd(a, b) == IF b = 0 THEN a ELSE Gcd(b, a % b)

Abs(x) == IF x < 0 THEN 0 - x ELSE x

Frac(n, d) == LET g == Gcd(Abs(n), d) IN <<n \div g, d \div g>>

(* The cast of an integer to np.int8.                                      *)
ToInt8(x) == ((x + 128) % 256) - 128

(* The quotient of an int8 by a float, cast back to int8: C truncates      *)
(* toward zero.                                                            *)
TruncDiv(x, d) == IF x < 0 THEN 0 - ((0 - x) \div d) ELSE x \div d

(* np.ma.asarray(field, dtype) of one cell                                 *)
AsDtype(x, dtype) == IF dtype = "int8" THEN ToInt8(x) ELSE x

(* The slip of leaving an int8 field undivided.                            *)
DivideCellFloatOnly(x, masked, scale, dtype) ==
    IF dtype = "int8" THEN x ELSE Frac(x, IF masked THEN 1 ELSE scale)

(* field /= scale_factor of one cell; numpy.ma divides a masked cell by 1. *)
DivideCell(x, masked, scale, dtype) ==
    LET by == IF masked THEN 1 ELSE scale IN
    IF dtype = "int8" THEN TruncDiv(x, by) ELSE Frac(x, by)

(* The slip of masking everything at or below the flag.                    *)
MaskedAtMost(x, flag) == x <= flag

(* np.ma.masked_equal(raw_field, flag) of one cell                         *)
MaskedEqual(x, flag) == x = flag

(* Lines 58-60 on the raw field.  Dividing an int8 array in place by a     *)
(* float needs an unsafe cast, which a numpy whose ufuncs cast by the      *)
(* 'same_kind' rule refuses with TypeError.                                *)
ScaleAndMask(raw, flag, scale, dtype, casting) ==
    IF dtype = "int8" /\ casting = "same_kind" THEN Raise("TypeError", "cast")
    ELSE LET rows == Len(raw.data)
             cols == Len(raw.data[1])
             mask == [r \in 1..rows |-> [c \in 1..cols |-> MaskedEqual(raw.data[r][c], flag)]]
         IN [kind |-> "masked", dtype |-> dtype, mask |-> mask,
             data |-> [r \in 1..rows |-> [c \in 1..cols |->
                         DivideCell(AsDtype(raw.data[r][c], dtype), mask[r][c], scale, dtype)]]]

(* scale_factor = float(self._hdr['variable_scale'].split(',')[field_num]) *)
ScaleFactor(self, field_num) ==
    LET scales == Split(self.hdr[S("variable_scale")], ",") IN
    IF field_num + 1 > Len(scales) THEN Raise("IndexError", "list index")
    ELSE PyFloat(scales[field_num + 1])

ReadScaledMaskedField(self, d, h, field_num, dtype) ==
    LET sf == ScaleFactor(self, field_num)
        none(r) == [opened |-> 0, closed |-> 0, res |-> r]
    IN IF IsError(sf) THEN none(sf)
       ELSE LET rr == ReadRawField(self, d, h.byteorder, field_num)
                io(r) == [opened |-> rr.opened, closed |-> rr.closed, res |-> r]
            IN IF IsError(rr.res) THEN rr
               ELSE LET flag == PyInt(self.hdr[S("flag_value")]) IN
                    IF IsError(flag) THEN io(flag)
                    ELSE io(ScaleAndMask(rr.res, flag.v, sf.v, dtype, h.casting))

---------------------------------------------------------------------------
(* The named accessors of the variants: the field each reads, and the      *)
(* dtype it asks for.                                                      *)
Accessors(v) ==
    CASE v = "TRMM3B40RTFile" ->
            {[name |-> "precip", field |-> 0, dtype |-> "float32"],
             [name |-> "precip_error", field |-> 1, dtype |-> "float32"],
             [name |-> "total_pixels", field |-> 2, dtype |-> "int8"],
             [name |-> "ambiguous_pixels", field |-> 3, dtype |-> "int8"],
             [name |-> "rain_pixels", field |-> 4, dtype |-> "int8"],
             [name |-> "source", field |-> 5, dtype |-> "int8"]}
      [] v = "TRMM3B41RTFile" ->
            {[name |-> "precip", field |-> 0, dtype |-> "float32"],
             [name |-> "precip_error", field |-> 1, dtype |-> "float32"],
             [name |-> "total_pixels", field |-> 2, dtype |-> "int8"]}
      [] v = "TRMM3B42RTFile" ->
            {[name |-> "precip", field |-> 0, dtype |-> "float32"],
             [name |-> "precip_error", field |-> 1, dtype |-> "float32"],
             [name |-> "source", field |-> 2, dtype |-> "int8"],
             [name |-> "uncalibrated_precip", field |-> 3, dtype |-> "float32"]}
      [] OTHER -> {}

(* The call self.<name>() on the object: the accessor's result.            *)
CallAccessor(self, d, h, a) == ReadScaledMaskedField(self, d, h, a.field, a.dtype)

---------------------------------------------------------------------------
(* The files and hosts the model draws from.                               *)

GoodTags == {"signed_integer1", "signed_integer2"}

AllTags == GoodTags \cup {"signed_integer4", "float"}

Algorithms == {ExpectedAlgorithm(v) : v \in Variants}

ScalePool == <<1, 10>>

ScaleSeeds == 0..(Len(ScalePool) - 1)

ScalesFor(s, n) == [k \in 1..n |-> ScalePool[((k - 1 + s) % Len(ScalePool)) + 1]]

Flags == {0 - 1, 0 - 9999}

Seeds == {0, MaxSeed}

Grids == {1, MaxRows} \X (1..MaxCols)

TypeLists(tags) == UNION {[1..n -> tags] : n \in 1..MaxFields}

(* The layouts of a six-field file, which all accessors of                *)
(* TRMM3B40RTFile can read.                                                *)
WideTypes ==
    {<<"signed_integer2", "signed_integer2", "signed_integer1",
       "signed_integer1", "signed_integer1", "signed_integer1">>,
     <<"signed_integer1", "signed_integer2", "signed_integer2",
       "signed_integer1", "signed_integer2", "signed_integer1">>}

LongLen == 4 * MaxRows * MaxCols * (MaxFields + 3)

ShortLen == 2 * MaxRows

PlainName == <<"3B4XRT", ".", "bin">>

GzName == <<"3B4XRT", ".", "bin", ".", "gz">>

LittleHost == [byteorder |-> "little", casting |-> "unsafe"]

BigHost == [byteorder |-> "big", casting |-> "unsafe"]

StrictHost == [byteorder |-> "little", casting |-> "same_kind"]

Hosts == {LittleHost, BigHost, StrictHost}

FieldNums == (0 - 2)..MaxFields

(* Well-formed files of every layout, for the decoding and the scaling.    *)
FieldFiles(algo) ==
    {File(HeaderTokens(algo, g[1], g[2], t, ScalesFor(s, Len(t)), flag), seed, LongLen) :
        g \in Grids, t \in TypeLists(GoodTags) \cup WideTypes,
        s \in ScaleSeeds, flag \in Flags, seed \in Seeds}

(* Files whose type tags may be none of the two supported ones.            *)
TagGrids == {<<1, 1>>, <<MaxRows, MaxCols>>}

TagFiles(algo) ==
    {File(HeaderTokens(algo, g[1], g[2], t, ScalesFor(0, Len(t)), 0 - 1), seed, LongLen) :
        g \in TagGrids, t \in TypeLists(AllTags), seed \in {0}}

(* What the path may hold over an object's life: nothing, a file that is   *)
(* no gzip archive under a .gz name, or a product file, whole or cut short.*)
MainGrids == {<<1, MaxCols>>, <<MaxRows, 1>>}

MainTypes == {<<"signed_integer2", "signed_integer1", "signed_integer1">>}

MainPayloads == {<<0, LongLen>>, <<MaxSeed, LongLen>>, <<0, ShortLen>>}

MainFiles(name) ==
    {Missing} \cup (IF IsGz(name) THEN {Corrupt} ELSE {})
        \cup {File(HeaderTokens(a, g[1], g[2], t, ScalesFor(0, Len(t)), 0 - 1), p[1], p[2]) :
                a \in Algorithms, g \in MainGrids, t \in MainTypes, p \in MainPayloads}

(* Header blocks with extra tokens of any shape before and after the       *)
(* tokens of a well-formed header.                                         *)
HeaderAlphabet == {"flag_value", "="}

ExtraTokens == UNION {[1..n -> HeaderAlphabet] : n \in 1..MaxTokenLen}

BaseTokens(algo) == HeaderTokens(algo, 1, 1, <<"signed_integer1">>, <<1>>, 0 - 1)

HeaderFiles ==
    UNION {UNION {{File(f \o BaseTokens(a) \o b, 0, LongLen) :
                     a \in Algorithms,
                     f \in [1..nf -> ExtraTokens], b \in [1..nb -> ExtraTokens]} :
                  nb \in 0..(MaxExtra - nf)} :
           nf \in 0..MaxExtra}

---------------------------------------------------------------------------
(* Actions.                                                                *)

Held(r) == handles + r.opened - r.closed

(* The slip of keeping the grid of the object the name held before.        *)
KeepsGrid(v, n) ==
    /\ Held(n) <= MaxHandles
    /\ handles' = Held(n)
    /\ obj' = IF n.kind # "ok" THEN NoObj
              ELSE IF obj = NoObj THEN n.self
              ELSE [n.self EXCEPT !.rows = obj.rows, !.cols = obj.cols]
    /\ out' = [call |-> "__init__", variant |-> v,
               res |-> IF n.kind = "ok" THEN [kind |-> "ok", warned |-> n.warned]
                       ELSE Raise(n.kind, n.what)]
    /\ UNCHANGED <<disk, filename, host>>

ConstructKeepsGrid(v) == KeepsGrid(v, New(v, filename, disk))

(* The name x bound to the outcome n of Variant(filename).                 *)
Bound(v, n) ==
    /\ Held(n) <= MaxHandles
    /\ handles' = Held(n)
    /\ obj' = IF n.kind = "ok" THEN n.self ELSE NoObj
    /\ out' = [call |-> "__init__", variant |-> v,
               res |-> IF n.kind = "ok" THEN [kind |-> "ok", warned |-> n.warned]
                       ELSE Raise(n.kind, n.what)]
    /\ UNCHANGED <<disk, filename, host>>

(* x = Variant(filename)                                                   *)
Construct(v) == Bound(v, New(v, filename, disk))

(* x.read_raw_field(field_num)                                             *)
CallReadRawField(field_num) ==
    /\ obj # NoObj
    /\ LET r == ReadRawField(obj, disk, host.byteorder, field_num) IN
       /\ Held(r) <= MaxHandles
       /\ handles' = Held(r)
       /\ out' = [call |-> "read_raw_field", field |-> field_num, res |-> r.res]
    /\ UNCHANGED <<disk, filename, host, obj>>

Access(name) ==
    /\ obj # NoObj
    /\ \E a \in Accessors(obj.variant) :
         /\ a.name = name
         /\ LET r == CallAccessor(obj, disk, host, a) IN
            /\ Held(r) <= MaxHandles
            /\ handles' = Held(r)
            /\ out' = [call |-> name, field |-> a.field, res |-> r.res]
    /\ UNCHANGED <<disk, filename, host, obj>>

Precip == Access("precip")

PrecipError == Access("precip_error")

TotalPixels == Access("total_pixels")

AmbiguousPixels == Access("ambiguous_pixels")

RainPixels == Access("rain_pixels")

Source == Access("source")

UncalibratedPrecip == Access("uncalibrated_precip")

(* The environment replaces the file the path names.                       *)
ChangeFile ==
    /\ \E f \in MainFiles(filename) : f # disk /\ disk' = f
    /\ out' = NoOut
    /\ UNCHANGED <<filename, host, obj, handles>>

---------------------------------------------------------------------------
(* Spec: the life of a reader object on a path whose file may change.      *)
Init ==
    /\ filename \in {PlainName, GzName}
    /\ disk \in MainFiles(filename)
    /\ host = LittleHost
    /\ obj = NoObj
    /\ out = NoOut
    /\ handles = 0

Next ==
    \/ \E v \in Variants : Construct(v)
    \/ ChangeFile
    \/ \E n \in FieldNums : CallReadRawField(n)
    \/ Precip
    \/ PrecipError
    \/ TotalPixels
    \/ AmbiguousPixels
    \/ RainPixels
    \/ Source
    \/ UncalibratedPrecip

Spec == Init /\ [][Next]_vars

(* SpecField: the reads of an object just constructed on a well-formed     *)
(* file, on every host.                                                    *)
InitField ==
    /\ filename = PlainName
    /\ host \in Hosts
    /\ \E v \in Variants : \E f \in FieldFiles(ExpectedAlgorithm(v)) :
         /\ disk = f
         /\ obj = New(v, filename, f).self
    /\ out = NoOut
    /\ handles = 0

NextField ==
    \/ \E n \in FieldNums : CallReadRawField(n)
    \/ Precip
    \/ PrecipError
    \/ TotalPixels
    \/ AmbiguousPixels
    \/ RainPixels
    \/ Source
    \/ UncalibratedPrecip

SpecField == InitField /\ [][NextField]_vars

(* SpecTags: the reads of an object just constructed on a file whose type  *)
(* tags are arbitrary.                                                     *)
InitTags ==
    /\ filename = PlainName
    /\ host \in {LittleHost, StrictHost}
    /\ \E v \in Variants : \E f \in TagFiles(ExpectedAlgorithm(v)) :
         /\ disk = f
         /\ obj = New(v, filename, f).self
    /\ out = NoOut
    /\ handles = 0

NextTags ==
    \/ \E n \in FieldNums : CallReadRawField(n)
    \/ Precip
    \/ PrecipError
    \/ TotalPixels
    \/ AmbiguousPixels
    \/ RainPixels
    \/ Source
    \/ UncalibratedPrecip

SpecTags == InitTags /\ [][NextTags]_vars

(* SpecHeader: construction on header blocks of every shape.               *)
InitHeader ==
    /\ filename = PlainName
    /\ host = LittleHost
    /\ disk \in HeaderFiles
    /\ obj = NoObj
    /\ out = NoOut
    /\ handles = 0

NextHeader == \E v \in Variants : Construct(v)

SpecHeader == InitHeader /\ [][NextHeader]_vars

---------------------------------------------------------------------------
(* What the claims speak of, read off the state.                           *)

IsCall(name) == out.call = name

Returned(kind) == out.call # "none" /\ out.res.kind = kind

(* The header the object holds, as numbers.                                *)
HdrTags == Split(obj.hdr[S("variable_type")], ",")

HdrFields == PyInt(obj.hdr[S("number_of_variables")]).v

HdrFlag == PyInt(obj.hdr[S("flag_value")]).v

HdrScale(n) == PyFloat(Split(obj.hdr[S("variable_scale")], ",")[n + 1]).v

HdrAlgorithm == obj.hdr[S("algorithm_ID")][1]

Supported(tag) == tag \in {S("signed_integer1"), S("signed_integer2")}

(* The byte width a supported tag declares.                                *)
DeclaredWidth(tag) == IF tag = S("signed_integer1") THEN 1 ELSE 2

(* 2880 + the sum over k in 0..n-1 of width_k * rows * cols                *)
RECURSIVE DeclaredOffset(_)
DeclaredOffset(n) ==
    IF n = 0 THEN HeaderOffset
    ELSE DeclaredOffset(n - 1) + DeclaredWidth(HdrTags[n]) * obj.rows * obj.cols

(* The byte of the file at position pos, at or after the header.           *)
FileByte(pos) == PayloadByte(disk.seed, pos - HeaderOffset)

(* The big-endian two's-complement value of the w bytes at pos.            *)
BigEndianAt(pos, w) ==
    LET u == IF w = 1 THEN FileByte(pos) ELSE 256 * FileByte(pos) + FileByte(pos + 1)
        m == IF w = 1 THEN 256 ELSE 65536
    IN IF 2 * u >= m THEN u - m ELSE u

(* The bytes of a value v of width w, most significant first.              *)
BigEndianBytes(v, w) ==
    LET m == IF w = 1 THEN 256 ELSE 65536
        u == IF v < 0 THEN v + m ELSE v
    IN IF w = 1 THEN <<u>> ELSE <<u \div 256, u % 256>>

(* The raw field the object reads now.                                     *)
RawNow(n) == ReadRawField(obj, disk, host.byteorder, n).res

FloatAccessors == {"precip", "precip_error", "uncalibrated_precip"}

IntegerAccessors == {"total_pixels", "ambiguous_pixels", "rain_pixels", "source"}

Cells == {rc \in (1..obj.rows) \X (1..obj.cols) : TRUE}

---------------------------------------------------------------------------
(* C1: read_raw_field(n), n a valid index on a header whose tags have      *)
(* widths 1 or 2, takes the field's bytes from the start offset            *)
(* 2880 + sum over k < n of width_k * rows * cols, and exactly             *)
(* width_n * rows * cols bytes from there: the bytes of the returned       *)
(* elements, in order, are those bytes of the file, whatever the other     *)
(* fields hold.                                                            *)
C1_FieldBytes ==
    (IsCall("read_raw_field") /\ out.field \in 0..(HdrFields - 1)) =>
        LET n == out.field
            w == DeclaredWidth(HdrTags[n + 1])
            off == DeclaredOffset(n)
        IN /\ out.res.kind = "array"
           /\ Len(out.res.data) = obj.rows
           /\ \A r \in 1..obj.rows : Len(out.res.data[r]) = obj.cols
           /\ \A rc \in Cells :
                BigEndianBytes(out.res.data[rc[1]][rc[2]], w)
                    = [j \in 1..w |->
                         FileByte(off + ((rc[1] - 1) * obj.cols + (rc[2] - 1)) * w + j - 1)]

(* A field read after a 1-byte and a 2-byte field, on a grid of several    *)
(* cells.                                                                  *)
C1_Witness ==
    /\ IsCall("read_raw_field") /\ out.field = 2 /\ out.res.kind = "array"
    /\ HdrTags[1] # HdrTags[2]
    /\ obj.rows * obj.cols > 1

(* C2: read_raw_field(n) with n outside [0, number_of_variables), negative *)
(* indices included, raises the out-of-range error naming n, the file and  *)
(* the field count, and returns no array; with n inside the range it does  *)
(* not raise that error.                                                   *)
C2_RangeCheck ==
    IsCall("read_raw_field") =>
        /\ out.field \notin 0..(HdrFields - 1) =>
             out.res = [kind |-> "IOError", what |-> "field number",
                        field_num |-> out.field, filename |-> filename,
                        nfields |-> HdrFields]
        /\ out.field \in 0..(HdrFields - 1) =>
             ~(out.res.kind = "IOError" /\ out.res.what = "field number")

(* A negative index was refused.                                           *)
C2_Witness ==
    /\ IsCall("read_raw_field") /\ out.field < 0
    /\ out.res.kind = "IOError" /\ out.res.what = "field number"
    /\ out.res.field_num = out.field

(* C3: in the result of a scaled (float) accessor a cell is masked exactly *)
(* when its raw value equals the header's flag_value, and every other cell *)
(* is the raw value divided by the field's entry of variable_scale; the    *)
(* neighbours flag_value-1 and flag_value+1 are not masked.                *)
C3_ScaledMasked ==
    (out.call \in FloatAccessors /\ out.res.kind = "masked") =>
        LET raw == RawNow(out.field).data
            scale == HdrScale(out.field)
        IN \A rc \in Cells :
             LET x == raw[rc[1]][rc[2]]
                 y == out.res.data[rc[1]][rc[2]]
             IN /\ out.res.mask[rc[1]][rc[2]] <=> (x = HdrFlag)
                /\ x # HdrFlag => (y[2] > 0 /\ y[1] * scale = x * y[2])

(* A scaled field, its scale not 1, that holds the flag and both its       *)
(* neighbours: only the flag is masked.                                    *)
C3_Witness ==
    /\ out.call \in FloatAccessors /\ out.res.kind = "masked"
    /\ HdrScale(out.field) # 1
    /\ \E a \in Cells, b \in Cells, c \in Cells :
         /\ RawNow(out.field).data[a[1]][a[2]] = HdrFlag
         /\ RawNow(out.field).data[b[1]][b[2]] = HdrFlag - 1
         /\ RawNow(out.field).data[c[1]][c[2]] = HdrFlag + 1
         /\ out.res.mask[a[1]][a[2]]
         /\ ~out.res.mask[b[1]][b[2]]
         /\ ~out.res.mask[c[1]][c[2]]

AsInt8(x) == CHOOSE y \in (0 - 128)..127 : (y - x) % 256 = 0

(* q is x / d truncated toward zero.                                       *)
IsTruncatedQuotient(q, x, d) ==
    /\ Abs(q) * d <= Abs(x)
    /\ Abs(x) < (Abs(q) + 1) * d
    /\ q # 0 => ((q < 0) <=> (x < 0))

C9_BigEndian ==
    (IsCall("read_raw_field") /\ out.res.kind = "array") =>
        LET n == out.field
            w == DeclaredWidth(HdrTags[n + 1])
            off == DeclaredOffset(n)
        IN /\ out.res.dtype = (IF w = 1 THEN "int8" ELSE "int16")
           /\ \A rc \in Cells :
                out.res.data[rc[1]][rc[2]]
                    = BigEndianAt(off + w * ((rc[1] - 1) * obj.cols + (rc[2] - 1)), w)
           /\ \A order \in {"little", "big"} :
                ReadRawField(obj, disk, order, n).res = out.res

(* On a big-endian host, a 2-byte field on a grid of two rows and two      *)
(* columns, with an element whose two bytes differ.                        *)
C9_Witness ==
    /\ IsCall("read_raw_field") /\ out.res.kind = "array"
    /\ host.byteorder = "big"
    /\ out.res.dtype = "int16"
    /\ obj.rows = 2 /\ obj.cols = 2
    /\ \E rc \in Cells :
         LET b == BigEndianBytes(out.res.data[rc[1]][rc[2]], 2) IN b[1] # b[2]

---------------------------------------------------------------------------
(* The algorithm_ID the file on disk declares.                             *)
DiskAlgorithm == (CHOOSE t \in {disk.header[i] : i \in 1..Len(disk.header)} :
                     t[1] = "algorithm_ID")[3]

(* The object, had its file declared the algorithm_ID of its class.        *)
Matched(o) == [o EXCEPT !.hdr = Put(o.hdr, S("algorithm_ID"), S(ExpectedAlgorithm(o.variant)))]

(* C5: constructing a variant on a file whose algorithm_ID is not the      *)
(* variant's warns and succeeds, and the reads that follow use the         *)
(* variant's own field index: precip() returns field 0 scaled and masked,  *)
(* what it would return had the algorithm_ID matched.                      *)
C5_MismatchWarns ==
    /\ (IsCall("__init__") /\ disk.status = "ok"
          /\ DiskAlgorithm # ExpectedAlgorithm(out.variant)) =>
            /\ out.res = [kind |-> "ok", warned |-> TRUE]
            /\ obj # NoObj
            /\ obj.variant = out.variant
    /\ (IsCall("precip") /\ HdrAlgorithm # ExpectedAlgorithm(obj.variant)) =>
            /\ out.field = 0
            /\ out.res = ReadScaledMaskedField(Matched(obj), disk, host, 0, "float32").res
            /\ RawNow(0).kind = "array" =>
                 out.res = ScaleAndMask(RawNow(0), HdrFlag, HdrScale(0), "float32",
                                        host.casting)

(* precip() returned a field on an object of one variant whose file        *)
(* declares another.                                                       *)
C5_Witness ==
    /\ IsCall("precip") /\ out.res.kind = "masked"
    /\ HdrAlgorithm # ExpectedAlgorithm(obj.variant)

(* C7: the handle a load opened is closed before the load returns or       *)
(* raises, also when reading or decompressing fails: no handle is open     *)
(* after any call.                                                         *)
C7_HandlesClosed == handles = 0

(* The result of every call the object offers, made now on object o.       *)
NextCalls(o) ==
    [reads |-> [n \in FieldNums |-> ReadRawField(o, disk, host.byteorder, n).res],
     named |-> [a \in Accessors(o.variant) |-> CallAccessor(o, disk, host, a).res]]

(* C8 as stated: nothing is kept between reads; after any calls and        *)
(* changes of the file, the next call on the object returns what the same  *)
(* call returns on an object newly constructed on the file as it is now.   *)
C8_NothingCached ==
    (obj # NoObj /\ New(obj.variant, filename, disk).kind = "ok") =>
        NextCalls(obj) = NextCalls(New(obj.variant, filename, disk).self)

(* C8, amended: the bytes of the file are read again by every call, but    *)
(* the header is not: _hdr, _rows and _cols are those decoded at           *)
(* construction.  The next call returns what the same call returns on a    *)
(* newly constructed object whenever the header block of the file as it    *)
(* is now parses to the header the object holds.                           *)
C8_HeaderKept ==
    (obj # NoObj /\ ReadHeader(filename, disk).kind = "ok"
        /\ ReadHeader(filename, disk).hdr = obj.hdr) =>
        /\ New(obj.variant, filename, disk).kind = "ok"
        /\ NextCalls(obj) = NextCalls(New(obj.variant, filename, disk).self)

(* The file was replaced after the object was constructed, by one with     *)
(* the same header block, and the object reads a field of it.              *)
C8_Witness ==
    /\ obj # NoObj /\ out = NoOut
    /\ ReadHeader(filename, disk).kind = "ok"
    /\ ReadHeader(filename, disk).hdr = obj.hdr
    /\ RawNow(0).kind = "array"

(* C10: read_raw_field(i), i in range, raises the malformed-header error   *)
(* whenever the tag of field i, or of a field k < i whose width enters the *)
(* offset of field i, is none of signed_integer1 and signed_integer2; it   *)
(* never returns data located with the width of an unsupported tag.        *)
C10_UnsupportedTag ==
    (IsCall("read_raw_field") /\ out.field \in 0..(Len(HdrTags) - 1)
        /\ \E k \in 0..out.field : ~Supported(HdrTags[k + 1])) =>
        out.res = [kind |-> "IOError", what |-> "Badly formed header",
                   filename |-> filename]

---------------------------------------------------------------------------
(* The tokens of a header block, split at the first "=".                   *)
EqCount(t) == Cardinality({i \in 1..Len(t) : t[i] = "="})

FirstEq(t) == CHOOSE i \in 1..Len(t) : t[i] = "=" /\ \A j \in 1..(i - 1) : t[j] # "="

KeyOf(t) == SubSeq(t, 1, FirstEq(t) - 1)

ValOf(t) == SubSeq(t, FirstEq(t) + 1, Len(t))

(* h maps the key of every token to the value of the last token that has   *)
(* that key, and nothing else.                                             *)
LastWins(tokens, h) ==
    /\ DOMAIN h = {KeyOf(tokens[i]) : i \in 1..Len(tokens)}
    /\ \A i \in 1..Len(tokens) :
         (\A j \in (i + 1)..Len(tokens) : KeyOf(tokens[j]) # KeyOf(tokens[i]))
            => h[KeyOf(tokens[i])] = ValOf(tokens[i])

(* C6 as stated: every token that contains an "=" is split at its first    *)
(* "=" only, the value being all the text after it, also when the value    *)
(* contains "="; a key that occurs again keeps its last value.             *)
C6_FirstEquals ==
    (IsCall("__init__") /\ \A i \in 1..Len(disk.header) : EqCount(disk.header[i]) >= 1) =>
        /\ obj # NoObj
        /\ LastWins(disk.header, obj.hdr)

(* C6, amended: a token is split at every "=".  A token with exactly one   *)
(* "=" gives the key, the text before it, and the value, the text after    *)
(* it; a token with no "=" or with more than one, so also one whose value  *)
(* contains "=", makes the parsing fail with ValueError and no header is   *)
(* produced; a key that occurs again keeps its last value.                 *)
C6_SingleEquals ==
    IsCall("__init__") =>
        IF \A i \in 1..Len(disk.header) : EqCount(disk.header[i]) = 1
        THEN /\ out.res.kind = "ok"
             /\ obj # NoObj
             /\ LastWins(disk.header, obj.hdr)
        ELSE /\ out.res = [kind |-> "ValueError", what |-> "unpack"]
             /\ obj = NoObj

(* A header was parsed in which a key occurs twice with different values,  *)
(* and the mapping holds the later one.                                    *)
C6_Witness ==
    /\ IsCall("__init__") /\ obj # NoObj
    /\ \E i \in 1..Len(disk.header), j \in 1..Len(disk.header) :
         /\ i < j
         /\ KeyOf(disk.header[i]) = KeyOf(disk.header[j])
         /\ ValOf(disk.header[i]) # ValOf(disk.header[j])
         /\ obj.hdr[KeyOf(disk.header[j])] = ValOf(disk.header[j])

====
